---- MODULE Spec2Model ----
(***************************************************************************)
(* Model of src/script.js: the chat panel controller.                      *)
(*                                                                         *)
(* Strings are sequences of symbols.  A symbol is either one character the *)
(* user can type, or one literal chunk of the markup the script writes     *)
(* (the opening span tag, the closing span tag, the two halves of the      *)
(* response template).  The literal chunks hold no "<" and no ">" apart    *)
(* from the two span tags, which are recognised whole.                     *)
(***************************************************************************)
EXTENDS Integers, Sequences, FiniteSets, TLC

VARIABLES
    inputValue,   \* userInput.value
    panel,        \* children of chatWindow, in document order
    scrollTop,    \* chatWindow.scrollTop, in rows
    timers,       \* pending setTimeout tasks, in registration order
    lastEvent     \* the event the browser dispatched last, and whether it sent

vars == <<inputValue, panel, scrollTop, timers, lastEvent>>

(***************************************************************************)
(* Bounds of the model.                                                    *)
(***************************************************************************)
MaxSubmits == 2      \* successful submits in one run
ClientHeight == 2    \* rows of the panel that are visible at once
TickStep == 500      \* milliseconds that pass in one Tick

Delay == 1000        \* setTimeout(..., 1000)

\* The raw values the user puts in the input field: empty, blank, plain,
\* padded with whitespace, a lone "<", and an opening tag.
InputValues ==
    { <<>>, <<" ">>, <<"a">>, <<"b">>, <<" ", "a", " ">>, <<"<">>, <<"<", "a">> }

\* The keys of the keypress events the model dispatches.
Keys == {"Enter", "a"}

(***************************************************************************)
(* String.prototype.trim                                                   *)
(***************************************************************************)
IsWhiteSpace(c) == c = " "

RECURSIVE TrimStart(_)
TrimStart(s) ==
    IF s # <<>> /\ IsWhiteSpace(Head(s)) THEN TrimStart(Tail(s)) ELSE s

RECURSIVE TrimEnd(_)
TrimEnd(s) ==
    IF s # <<>> /\ IsWhiteSpace(s[Len(s)])
    THEN TrimEnd(SubSeq(s, 1, Len(s) - 1))
    ELSE s

NoTrim(s) == s

Trim(s) == TrimEnd(TrimStart(s))

(***************************************************************************)
(* The markup the script assigns to innerHTML, and the text the HTML       *)
(* parser makes of it.                                                     *)
(***************************************************************************)
SpanOpen == "<span class=\"message-text\">"
SpanClose == "</span>"
TemplatePrefix == "This is a simulated AI response to \""
TemplateSuffix == "\"."

UserClass == "message user-message"
AiClass == "message ai-message"

UserMarkup(userText) == <<SpanOpen>> \o userText \o <<SpanClose>>

AiMarkup(userText) ==
    <<SpanOpen, TemplatePrefix>> \o userText \o <<TemplateSuffix, SpanClose>>

IsAsciiAlpha(c) == c \in {"a", "b"}

\* The HTML tokenizer on the symbols from position i on.  In the data state
\* "<" followed by a letter opens a tag, and everything up to the next ">"
\* belongs to the tag and yields no text; the closing span tag ends in ">".
\* A "<" followed by anything else is text.
RECURSIVE Tokenize(_, _, _)
Tokenize(s, i, inTag) ==
    IF i > Len(s) THEN <<>>
    ELSE IF inTag
         THEN Tokenize(s, i + 1, ~(s[i] \in {">", SpanClose}))
    ELSE IF s[i] = "<" /\ i < Len(s) /\ IsAsciiAlpha(s[i + 1])
         THEN Tokenize(s, i + 2, TRUE)
    ELSE IF s[i] \in {SpanOpen, SpanClose}
         THEN Tokenize(s, i + 1, FALSE)
    ELSE <<s[i]>> \o Tokenize(s, i + 1, FALSE)

\* Node.textContent of an element whose innerHTML was set to html.
TextContent(html) == Tokenize(html, 1, FALSE)

UserMessage(userText) ==
    [className |-> UserClass, innerHTML |-> UserMarkup(userText)]

ResponseTextFromInput(captured) == Trim(inputValue)

\* The text the timer callback embeds: the userText of its closure.
ResponseText(captured) == captured

AiMessage(userText) ==
    [className |-> AiClass, innerHTML |-> AiMarkup(ResponseText(userText))]

(***************************************************************************)
(* The panel: appendChild, scrollHeight, scrollTop                         *)
(***************************************************************************)
PrependChild(p, m) == <<m>> \o p

AppendChild(p, m) == Append(p, m)

Max(a, b) == IF a >= b THEN a ELSE b
Min(a, b) == IF a <= b THEN a ELSE b

\* Every message takes one row; an empty panel is as high as its box.
ScrollHeight(p) == Max(Len(p), ClientHeight)

MaxScrollTop(p) == ScrollHeight(p) - ClientHeight

NoScroll(old, p) == old

\* chatWindow.scrollTop = chatWindow.scrollHeight on the panel p: the
\* browser clamps the assigned value to the largest offset.
ScrollToBottom(old, p) == Min(ScrollHeight(p), MaxScrollTop(p))

NumUser(p) == Cardinality({i \in 1..Len(p) : p[i].className = UserClass})

(***************************************************************************)
(* Events                                                                  *)
(***************************************************************************)
\* The event being dispatched, with what the page showed at that moment:
\* value is userInput.value and top is chatWindow.scrollTop when a listener
\* or callback started (kept for the events that run script), sent tells
\* whether sendMessage took its branch, and afterSend whether the event
\* before this one was a trigger that sent.
IsTrigger(e) == e.type = "click" \/ (e.type = "keypress" /\ e.key = "Enter")

Dispatch(type, key) ==
    [type |-> type, key |-> key, value |-> inputValue, top |-> scrollTop,
     sent |-> FALSE, afterSend |-> IsTrigger(lastEvent) /\ lastEvent.sent]

Passive(type) ==
    [type |-> type, key |-> "", value |-> <<>>, top |-> 0,
     sent |-> FALSE, afterSend |-> FALSE]

InputNotCleared == inputValue

InputSetToTrimmed == Trim(inputValue)

\* userInput.value = ''
ClearedValue == <<>>

\* The task setTimeout registers: the closure's userText and the delay.
NewTimer(userText) ==
    [userText |-> userText, delay |-> Delay, remaining |-> Delay]

sendMessage(ev) ==
    LET userText == Trim(inputValue) IN
    IF userText # <<>>
    THEN /\ NumUser(panel) < MaxSubmits
         /\ panel' = AppendChild(panel, UserMessage(userText))
         /\ scrollTop' = ScrollToBottom(scrollTop, panel')
         /\ inputValue' = ClearedValue
         /\ timers' = Append(timers, NewTimer(userText))
         /\ lastEvent' = [ev EXCEPT !.sent = TRUE]
    ELSE /\ UNCHANGED <<inputValue, panel, scrollTop, timers>>
         /\ lastEvent' = ev

\* sendBtn 'click' listener
Click == sendMessage(Dispatch("click", ""))

EnterMisspelt(key) == key = "enter"

\* event.key === 'Enter'
IsSubmitKey(key) == key = "Enter"

\* userInput 'keypress' listener
KeyPress(key) ==
    IF IsSubmitKey(key)
    THEN sendMessage(Dispatch("keypress", key))
    ELSE /\ UNCHANGED <<inputValue, panel, scrollTop, timers>>
         /\ lastEvent' = Dispatch("keypress", key)

\* The user edits the input field.
Input(v) ==
    /\ v # inputValue
    /\ inputValue' = v
    /\ lastEvent' = Passive("input")
    /\ UNCHANGED <<panel, scrollTop, timers>>

\* The user scrolls the panel.
Scroll(pos) ==
    /\ pos # scrollTop
    /\ scrollTop' = pos
    /\ lastEvent' = Passive("scroll")
    /\ UNCHANGED <<inputValue, panel, timers>>

\* TickStep milliseconds pass while a timer is still waiting.
Tick ==
    /\ \E i \in 1..Len(timers) : timers[i].remaining > 0
    /\ timers' = [i \in 1..Len(timers) |->
                    [timers[i] EXCEPT !.remaining = Max(0, @ - TickStep)]]
    /\ lastEvent' = Passive("tick")
    /\ UNCHANGED <<inputValue, panel, scrollTop>>

AnyExpiredTimer(i) == timers[i].remaining = 0

\* Timer i may run: its delay has passed, and so has every timer that was
\* set earlier with a delay no longer than its own (all delays are Delay).
TimerMayFire(i) ==
    /\ timers[i].remaining = 0
    /\ \A j \in 1..(i - 1) : timers[j].delay > timers[i].delay

ClearAllTimers(s, i) == <<>>

RemoveAt(s, i) == SubSeq(s, 1, i - 1) \o SubSeq(s, i + 1, Len(s))

TimeoutClearsInput(i) ==
    /\ TimerMayFire(i)
    /\ panel' = AppendChild(panel, AiMessage(timers[i].userText))
    /\ scrollTop' = ScrollToBottom(scrollTop, panel')
    /\ timers' = RemoveAt(timers, i)
    /\ lastEvent' = Dispatch("timeout", "")
    /\ inputValue' = ClearedValue

\* The setTimeout callback of timer i.
Timeout(i) ==
    /\ TimerMayFire(i)
    /\ panel' = AppendChild(panel, AiMessage(timers[i].userText))
    /\ scrollTop' = ScrollToBottom(scrollTop, panel')
    /\ timers' = RemoveAt(timers, i)
    /\ lastEvent' = Dispatch("timeout", "")
    /\ UNCHANGED inputValue

Init ==
    /\ inputValue = <<>>
    /\ panel = <<>>
    /\ scrollTop = 0
    /\ timers = <<>>
    /\ lastEvent = Passive("DOMContentLoaded")

Next ==
    \/ Click
    \/ \E key \in Keys : KeyPress(key)
    \/ \E v \in InputValues : Input(v)
    \/ \E pos \in 0..MaxScrollTop(panel) : Scroll(pos)
    \/ Tick
    \/ \E i \in 1..Len(timers) : Timeout(i)

Spec == Init /\ [][Next]_vars

\* The event loop lets time pass while a timer waits and runs every timer
\* task that is due.
FairSpec ==
    /\ Spec
    /\ WF_vars(Tick)
    /\ WF_vars(\E i \in 1..Len(timers) : Timeout(i))

(***************************************************************************)
(* Vocabulary of the properties, stated without the operators above.       *)
(***************************************************************************)
IsBlank(s) == \A i \in 1..Len(s) : s[i] = " "

\* s without its leading and trailing whitespace.
Stripped(s) ==
    IF IsBlank(s) THEN <<>>
    ELSE LET ink == {i \in 1..Len(s) : s[i] # " "}
             lo == CHOOSE i \in ink : \A j \in ink : i <= j
             hi == CHOOSE i \in ink : \A j \in ink : j <= i
         IN SubSeq(s, lo, hi)

IsPrefix(p, q) == Len(p) <= Len(q) /\ SubSeq(q, 1, Len(p)) = p

Last(s) == s[Len(s)]

IsUser(m) == m.className = "message user-message"
IsAi(m) == m.className = "message ai-message"

\* The text a message shows.
TextOf(m) == TextContent(m.innerHTML)

\* The template of the response to the text S.
ResponseTo(S) ==
    <<"This is a simulated AI response to \"">> \o S \o <<"\".">>

\* The text a message was made from: its markup without the wrapping.
SourceOf(m) ==
    IF IsUser(m)
    THEN SubSeq(m.innerHTML, 2, Len(m.innerHTML) - 1)
    ELSE SubSeq(m.innerHTML, 3, Len(m.innerHTML) - 2)

\* The positions of the user messages and of the assistant messages.
UserAt(p) == {i \in 1..Len(p) : IsUser(p[i])}
AiAt(p) == {i \in 1..Len(p) : IsAi(p[i])}

\* The k-th smallest element of the set of positions P.
Nth(P, k) == CHOOSE i \in P : Cardinality({j \in P : j <= i}) = k

\* The largest scroll offset of a panel of n messages.
BottomOf(n) == IF n > ClientHeight THEN n - ClientHeight ELSE 0

\* C1: for every value whose trimmed form S is non-empty, a submit appends
\* exactly one user message with text S; the firing of a timer appends
\* exactly one assistant message whose text is the template around the S of
\* its submit; no other step appends a message.
C1_SubmitAppendsTextThenResponse ==
    [][/\ (IsTrigger(lastEvent') /\ ~IsBlank(inputValue)) =>
            /\ Len(panel') = Len(panel) + 1
            /\ IsPrefix(panel, panel')
            /\ IsUser(Last(panel'))
            /\ TextOf(Last(panel')) = Stripped(inputValue)
            /\ Len(timers') = Len(timers) + 1
            /\ Last(timers').remaining = Delay
       /\ (lastEvent'.type = "timeout") =>
            /\ Len(panel') = Len(panel) + 1
            /\ IsPrefix(panel, panel')
            /\ IsAi(Last(panel'))
            /\ \E i \in 1..Len(timers) :
                  /\ timers[i].remaining = 0
                  /\ timers' = RemoveAt(timers, i)
                  /\ TextOf(Last(panel')) = ResponseTo(timers[i].userText)
       /\ (~IsTrigger(lastEvent') /\ lastEvent'.type # "timeout") =>
            panel' = panel
      ]_vars

\* C2: a submit of an empty or whitespace-only value changes nothing: not
\* the panel, not the timers, not the scroll position, not the value.
C2_BlankSubmitIsNoOp ==
    [][(IsTrigger(lastEvent') /\ IsBlank(inputValue)) =>
            UNCHANGED <<panel, timers, scrollTop, inputValue>>
      ]_vars

\* A trigger has just run on a whitespace-only value, with a message in the
\* panel and a timer pending, and the value is still there.
C2_Witness ==
    /\ IsTrigger(lastEvent) /\ ~lastEvent.sent
    /\ lastEvent.value = <<" ">> /\ inputValue = <<" ">>
    /\ Len(panel) > 0 /\ Len(timers) > 0

\* C3: the panel only grows at its end: every step leaves the panel it
\* started from as a prefix of the panel it ends in.
C3_PanelAppendOnly == [][IsPrefix(panel, panel')]_vars

\* A panel that was appended to by submits and by timers.
C3_Witness ==
    /\ Len(panel) >= 3
    /\ \E i \in 1..Len(panel) : IsAi(panel[i])
    /\ \E i \in 2..Len(panel) : IsUser(panel[i])

\* C4: timers all have the same delay and are due in the order they were
\* set, and the k-th assistant message is the response to the text of the
\* k-th user message.
C4_ResponsesInSubmitOrder ==
    /\ \A i \in 1..Len(timers) :
          /\ timers[i].delay = Delay
          /\ \A j \in 1..Len(timers) :
                i <= j => timers[i].remaining <= timers[j].remaining
    /\ Cardinality(AiAt(panel)) <= Cardinality(UserAt(panel))
    /\ \A k \in 1..Cardinality(AiAt(panel)) :
          /\ Nth(UserAt(panel), k) < Nth(AiAt(panel), k)
          /\ panel[Nth(AiAt(panel), k)].innerHTML =
                <<SpanOpen>> \o ResponseTo(SourceOf(panel[Nth(UserAt(panel), k)]))
                             \o <<SpanClose>>

\* "a" and "b" were both submitted before either timer fired, and both
\* timers have fired.
C4_Witness ==
    /\ Len(panel) = 4 /\ timers = <<>>
    /\ IsUser(panel[1]) /\ TextOf(panel[1]) = <<"a">>
    /\ IsUser(panel[2]) /\ TextOf(panel[2]) = <<"b">>
    /\ IsAi(panel[3]) /\ TextOf(panel[3]) = ResponseTo(<<"a">>)
    /\ IsAi(panel[4]) /\ TextOf(panel[4]) = ResponseTo(<<"b">>)

\* C5 as claimed: a trigger right after a trigger that sent appends a second
\* user message and schedules a second timer.
C5_DoubleSubmitSendsTwice ==
    [][(IsTrigger(lastEvent) /\ lastEvent.sent /\ IsTrigger(lastEvent')) =>
            /\ Cardinality(UserAt(panel')) = Cardinality(UserAt(panel)) + 1
            /\ Len(timers') = Len(timers) + 1
      ]_vars

\* C5 amended: every trigger submits the value the field holds at that
\* moment, whatever event came before, so a trigger on a non-blank value
\* always appends a user message and schedules a timer; a trigger right after
\* a trigger that sent finds the field cleared and changes nothing.
C5_EachTriggerSubmitsCurrentValue ==
    [][/\ (IsTrigger(lastEvent') /\ ~IsBlank(inputValue)) =>
            /\ Cardinality(UserAt(panel')) = Cardinality(UserAt(panel)) + 1
            /\ SourceOf(Last(panel')) = Stripped(inputValue)
            /\ Len(timers') = Len(timers) + 1
       /\ (IsTrigger(lastEvent) /\ lastEvent.sent /\ IsTrigger(lastEvent')) =>
            UNCHANGED <<panel, timers, scrollTop, inputValue>>
      ]_vars

\* The second of two triggers back to back has run; the first one sent from
\* a non-blank value, and there is still one user message and one timer.
C5_Witness ==
    /\ IsTrigger(lastEvent) /\ lastEvent.afterSend /\ ~lastEvent.sent
    /\ Cardinality(UserAt(panel)) = 1 /\ Len(timers) = 1
    /\ timers[1].remaining = Delay

\* C6: submissions are never deduplicated: when the same text S was
\* submitted twice, the panel holds two user messages with text S and, once
\* no timer is pending, two assistant messages with the response to S.
C6_SameTextTwiceGivesTwoPairs ==
    \A i, j \in UserAt(panel) :
        (i < j /\ SourceOf(panel[i]) = SourceOf(panel[j])) =>
            LET S == SourceOf(panel[i]) IN
            /\ Cardinality({k \in UserAt(panel) : TextOf(panel[k]) = S}) >= 2
            /\ timers = <<>> =>
                  Cardinality({k \in AiAt(panel) :
                                  TextOf(panel[k]) = ResponseTo(S)}) >= 2

\* C7: right after a submit of a value that is not blank, the input field
\* holds the empty string.
C7_InputClearedAfterSubmit ==
    [][(IsTrigger(lastEvent') /\ ~IsBlank(inputValue)) => inputValue' = <<>>
      ]_vars

\* A value with whitespace on both sides has just been submitted, and the
\* field is empty.
C7_Witness ==
    /\ IsTrigger(lastEvent) /\ lastEvent.sent
    /\ lastEvent.value = <<" ", "a", " ">>
    /\ inputValue = <<>>

\* C8: a submit stores the trimmed value of that moment with its timer; no
\* later edit or submit changes what a pending timer holds; the timer's
\* callback builds its message from what the timer holds.
C8_ResponseUsesCapturedText ==
    [][/\ (lastEvent'.type # "timeout") =>
            /\ Len(timers') >= Len(timers)
            /\ \A i \in 1..Len(timers) :
                  timers'[i].userText = timers[i].userText
       /\ (IsTrigger(lastEvent') /\ ~IsBlank(inputValue)) =>
            Last(timers').userText = Stripped(inputValue)
       /\ (lastEvent'.type = "timeout") =>
            \E i \in 1..Len(timers) :
               /\ timers' = RemoveAt(timers, i)
               /\ Last(panel').innerHTML =
                     <<SpanOpen>> \o ResponseTo(timers[i].userText)
                                  \o <<SpanClose>>
      ]_vars

\* The timer of "a" has just fired after a further submit was made and
\* while the field held "b"; the response is the one to "a".
C8_Witness ==
    /\ lastEvent.type = "timeout" /\ inputValue = <<"b">>
    /\ Len(panel) = 3 /\ IsUser(panel[1]) /\ IsUser(panel[2])
    /\ SourceOf(panel[1]) = <<"a">>
    /\ TextOf(panel[3]) = ResponseTo(<<"a">>)

\* C9: right after a submit that sent and right after a timer's callback,
\* the scroll offset is the largest one the panel has.
C9_ScrolledToBottomAfterAppend ==
    ((IsTrigger(lastEvent) /\ lastEvent.sent) \/ lastEvent.type = "timeout")
        => scrollTop = BottomOf(Len(panel))

\* A timer has just fired while the user had scrolled up from the bottom,
\* and the panel is at its new bottom.
C9_Witness ==
    /\ lastEvent.type = "timeout"
    /\ lastEvent.top < BottomOf(Len(panel) - 1)
    /\ scrollTop = BottomOf(Len(panel))
    /\ scrollTop > 0

\* What a submit does to the page, as a function of the state it starts in.
SubmitEffect ==
    IF IsBlank(inputValue)
    THEN UNCHANGED <<panel, timers, scrollTop, inputValue>>
    ELSE /\ panel' = Append(panel,
                [className |-> "message user-message",
                 innerHTML |-> <<SpanOpen>> \o Stripped(inputValue)
                                            \o <<SpanClose>>])
         /\ timers' = Append(timers,
                [userText |-> Stripped(inputValue), delay |-> Delay,
                 remaining |-> Delay])
         /\ scrollTop' = BottomOf(Len(panel) + 1)
         /\ inputValue' = <<>>

\* C10: a click and a keypress of Enter change panel, input field, scroll
\* position and timers in the same way from the same state; a keypress of
\* any other key changes none of them.
C10_ClickAndEnterAgree ==
    [][/\ (lastEvent'.type = "click") => SubmitEffect
       /\ (lastEvent'.type = "keypress" /\ lastEvent'.key = "Enter") =>
            SubmitEffect
       /\ (lastEvent'.type = "keypress" /\ lastEvent'.key # "Enter") =>
            UNCHANGED <<panel, timers, scrollTop, inputValue>>
      ]_vars

\* A keypress of Enter has just sent a message into a panel that already
\* held one.
C10_Witness ==
    /\ lastEvent.type = "keypress" /\ lastEvent.key = "Enter"
    /\ lastEvent.sent /\ Len(panel) >= 2 /\ inputValue = <<>>

\* C11: no pending timer is cancelled or lost: the user messages are as
\* many as the assistant messages and the pending timers together; and, the
\* timers firing, once there is a k-th user message there comes a k-th
\* assistant message.
C11_EveryRequestIsAnswered ==
    /\ [](Cardinality(UserAt(panel)) =
              Cardinality(AiAt(panel)) + Len(timers))
    /\ [](\A k \in 1..MaxSubmits :
             (Cardinality(UserAt(panel)) >= k) =>
                 <>(Cardinality(AiAt(panel)) >= k))

\* Two submits were made, one timer has fired and the other is pending.
C11_Witness ==
    /\ Cardinality(UserAt(panel)) = 2
    /\ Cardinality(AiAt(panel)) = 1
    /\ Len(timers) = 1

\* The text s occurs in the text t as one piece.
Contains(t, s) ==
    \E i \in 0..(Len(t) - Len(s)) : SubSeq(t, i + 1, i + Len(s)) = s

\* C12: no response precedes its request: every prefix of the panel holds
\* at least as many user messages as assistant messages; every assistant
\* message is built from, and shows, the text of a user message that stands
\* before it; a panel that is not empty begins with a user message.
C12_NoResponseBeforeRequest ==
    /\ \A n \in 1..Len(panel) :
          Cardinality({i \in UserAt(panel) : i <= n}) >=
              Cardinality({i \in AiAt(panel) : i <= n})
    /\ \A i \in AiAt(panel) :
          \E j \in UserAt(panel) :
             /\ j < i
             /\ SourceOf(panel[i]) = SourceOf(panel[j])
             /\ Contains(TextOf(panel[i]), TextOf(panel[j]))
    /\ panel # <<>> => IsUser(panel[1])

\* Two requests, each answered before the next one was made.
C12_Witness ==
    /\ Len(panel) = 4
    /\ IsUser(panel[1]) /\ IsAi(panel[2]) /\ IsUser(panel[3]) /\ IsAi(panel[4])
    /\ TextOf(panel[3]) = <<"b">>
    /\ TextOf(panel[4]) = ResponseTo(<<"b">>)

\* C13: a timer's callback appends one assistant message and may move the
\* scroll offset, and nothing else: the input field keeps its value, no
\* timer is added, and the other pending timers stay as they were.
C13_TimeoutFrame ==
    [][(lastEvent'.type = "timeout") =>
            /\ inputValue' = inputValue
            /\ Len(panel') = Len(panel) + 1
            /\ IsPrefix(panel, panel')
            /\ IsAi(Last(panel'))
            /\ \E i \in 1..Len(timers) :
                  timers' = [j \in 1..(Len(timers) - 1) |->
                                IF j < i THEN timers[j] ELSE timers[j + 1]]
      ]_vars

\* A timer has just fired while the field held text typed in the meantime
\* and another timer was pending; both are still there.
C13_Witness ==
    /\ lastEvent.type = "timeout"
    /\ lastEvent.value = <<"<", "a">> /\ inputValue = <<"<", "a">>
    /\ Len(timers) = 1 /\ timers[1].remaining > 0

====
